---- MODULE Spec2Model ----
(***************************************************************************)
(* Model of the management command scrape_product_descriptions             *)
(* (backend/primini_backend/products/management/commands/).                *)
(*                                                                         *)
(* Texts are kept run-length encoded: a text is a sequence of runs         *)
(* [c |-> class, n |-> count], where the class of a character is           *)
(*   "x"  an ordinary visible character,                                   *)
(*   "s"  a whitespace character (matched by \s),                          *)
(*   "b"  a bullet character (one of the two in the bullet regex),         *)
(*   "d"  a dash '-',                                                      *)
(*   "p"  a period '.', the character of the ellipsis marker.              *)
(* A text is normalised: no run is empty and adjacent runs differ in class.*)
(*                                                                         *)
(* Spec is a run of the command; SpecClean applies clean_description to a  *)
(* text and to its own output.  Times are in milliseconds.                 *)
(***************************************************************************)
EXTENDS Integers, Sequences, FiniteSets, TLC

----------------------------------------------------------------------------
(* Text helpers *)

Run(c, n) == [c |-> c, n |-> n]

Min(a, b) == IF a < b THEN a ELSE b

RECURSIVE TextLen(_)
TextLen(t) == IF t = << >> THEN 0 ELSE Head(t).n + TextLen(Tail(t))

\* Appends run r to normalised text t, merging with the last run.
AppendRun(t, r) ==
    IF r.n = 0 THEN t
    ELSE IF t # << >> /\ t[Len(t)].c = r.c
         THEN [t EXCEPT ![Len(t)] = Run(r.c, t[Len(t)].n + r.n)]
         ELSE Append(t, r)

RECURSIVE Concat(_, _)
Concat(t, u) == IF u = << >> THEN t ELSE Concat(AppendRun(t, Head(u)), Tail(u))

\* str.strip(): leading and trailing whitespace removed.
Strip(t) ==
    LET a == IF t # << >> /\ t[1].c = "s" THEN Tail(t) ELSE t
    IN  IF a # << >> /\ a[Len(a)].c = "s" THEN SubSeq(a, 1, Len(a) - 1) ELSE a

\* text[:k]
RECURSIVE Take(_, _)
Take(t, k) ==
    IF t = << >> \/ k <= 0 THEN << >>
    ELSE IF Head(t).n >= k THEN << Run(Head(t).c, k) >>
         ELSE << Head(t) >> \o Take(Tail(t), k - Head(t).n)

\* The longest run of whitespace in a text.
RECURSIVE MaxWhitespaceRun(_)
MaxWhitespaceRun(t) ==
    IF t = << >> THEN 0
    ELSE LET m == MaxWhitespaceRun(Tail(t))
             h == IF Head(t).c = "s" THEN Head(t).n ELSE 0
         IN  IF h > m THEN h ELSE m

----------------------------------------------------------------------------
(* clean_description *)

MIN_DESCRIPTION_LENGTH == 50
MAX_DESCRIPTION_LENGTH == 2000
TRUNCATE_AT == 1997
MIN_LINE_LENGTH == 20

Ellipsis == << Run("p", 3) >>

\* re.sub(r'\s+', ' ', text): every whitespace run becomes one space.
CollapseWhitespace(t) ==
    [i \in 1..Len(t) |-> IF t[i].c = "s" THEN Run("s", 1) ELSE t[i]]

\* re.sub(r'\s*[bullet]\s*', ' ', text): every bullet becomes one space and
\* the whitespace next to a bullet is consumed by the match.
RECURSIVE SubBulletsFrom(_, _, _)
SubBulletsFrom(t, i, acc) ==
    IF i > Len(t) THEN acc
    ELSE LET r == t[i]
             nearBullet == \/ (i > 1 /\ t[i-1].c = "b")
                           \/ (i < Len(t) /\ t[i+1].c = "b")
         IN  IF r.c = "b" THEN SubBulletsFrom(t, i + 1, AppendRun(acc, Run("s", r.n)))
             ELSE IF r.c = "s" /\ nearBullet THEN SubBulletsFrom(t, i + 1, acc)
             ELSE SubBulletsFrom(t, i + 1, AppendRun(acc, r))

SubBullets(t) == SubBulletsFrom(t, 1, << >>)

\* End index of the maximal stretch of dash/whitespace runs starting at i.
RECURSIVE StretchEnd(_, _)
StretchEnd(t, i) ==
    IF i < Len(t) /\ t[i+1].c \in {"s", "d"} THEN StretchEnd(t, i + 1) ELSE i

RECURSIVE DashesIn(_, _, _)
DashesIn(t, i, j) ==
    IF i > j THEN 0
    ELSE (IF t[i].c = "d" THEN t[i].n ELSE 0) + DashesIn(t, i + 1, j)

\* re.sub(r'\s*-\s*-\s*', ' ', text): within a stretch of dashes and
\* whitespace the dashes are matched in pairs from the left, each pair
\* (with the whitespace around it) becoming one space; an odd last
\* dash and the whitespace after it stay.
RECURSIVE SubDashesFrom(_, _, _)
SubDashesFrom(t, i, acc) ==
    IF i > Len(t) THEN acc
    ELSE IF t[i].c \notin {"s", "d"}
         THEN SubDashesFrom(t, i + 1, AppendRun(acc, t[i]))
    ELSE LET j == StretchEnd(t, i)
             k == DashesIn(t, i, j)
             kept == IF k < 2
                     THEN SubSeq(t, i, j)
                     ELSE IF k % 2 = 0
                     THEN << Run("s", k \div 2) >>
                     ELSE << Run("s", (k - 1) \div 2), Run("d", 1) >>
                          \o (IF t[j].c = "s" THEN << t[j] >> ELSE << >>)
         IN  SubDashesFrom(t, j + 1, Concat(acc, kept))

SubDashes(t) == SubDashesFrom(t, 1, << >>)

\* DropShortLines as it would be if the kept line were not stripped.
DropShortLinesUnstripped(t) ==
    IF TextLen(Strip(t)) > MIN_LINE_LENGTH THEN t ELSE << >>

\* description.split('\n'), keep the lines longer than 20 after strip,
\* joined by ' '.  The text holds no newline after CollapseWhitespace, so it
\* is one line.
DropShortLines(t) ==
    IF TextLen(Strip(t)) > MIN_LINE_LENGTH THEN Strip(t) ELSE << >>

\* Truncate as it would be without the length limit.
TruncateOff(t) == t

Truncate(t) ==
    IF TextLen(t) > MAX_DESCRIPTION_LENGTH
    THEN Concat(Take(t, TRUNCATE_AT), Ellipsis)
    ELSE t

clean_description(description) ==
    IF description = << >> THEN << >>
    ELSE Strip(Truncate(DropShortLines(SubDashes(SubBullets(CollapseWhitespace(description))))))

----------------------------------------------------------------------------
(* The catalog, the options and the inputs of a run *)

NumProducts == 2
Products == 1..NumProducts

NoText == << >>


\* Texts an extraction strategy can return for a page: a short one, a good
\* one, one that is long enough raw and too short once cleaned, and one over
\* the maximum length.
RawTexts ==
    { << Run("x", 30) >>,
      << Run("x", 60) >>,
      << Run("x", 25), Run("d", 40) >>,
      << Run("x", 2100) >> }

\* What a site-specific or generic strategy returns: None or a text.
StrategyReturns == { NoText } \cup RawTexts

\* What the chat completion call does: it raises ("error"), or it answers
\* with a text that is or starts with the sentinel NOT_FOUND ("not_found":
\* the bare sentinel of 9 characters, or the sentinel followed by an
\* explanation), or with another text.
LlmResponses ==
    { [kind |-> "error", text |-> NoText],
      [kind |-> "not_found", text |-> << Run("x", 9) >>],
      [kind |-> "not_found", text |-> << Run("x", 9), Run("s", 1), Run("x", 60) >>] }
    \cup { [kind |-> "text", text |-> t] : t \in RawTexts }

\* urlparse(url).netloc of the offer's URL.
SiteDomains == { "iris.ma", "primini.ma", "biougnach.ma", "jumia.ma" }
\* Domains of the offers of the catalog: one with a rule and one without.
Domains == { "iris.ma", "other.ma" }

\* Option values of a run (add_arguments).
DEFAULT_DELAY == 2000         \* --delay, in milliseconds
CommitIntervals == { 0, 2 }
Limits == { 0, 1 }            \* 0 stands for no --limit

\* A Failure Ledger file given to --retry-from-json: "none" (option absent),
\* "missing" (no such file) or the records of the file, here one record
\* for each of the first k products.
MaxLedger == 1
LedgerRecord(p) == [product_id |-> p, url |-> "iris.ma", error |-> "request", retry_count |-> 0]
RetryFiles ==
    { [kind |-> "none", records |-> << >>], [kind |-> "missing", records |-> << >>] }
    \cup { [kind |-> "ledger", records |-> [i \in 1..k |-> LedgerRecord(i)]] :
             k \in 1..Min(MaxLedger, NumProducts) }

AllOptions ==
    [ rollback_on_error : BOOLEAN,
      use_llm : BOOLEAN,
      skip_existing : BOOLEAN,
      download_images : BOOLEAN,
      commit_interval : CommitIntervals,
      limit : Limits,
      max_image_size : { 5 },
      delay : { DEFAULT_DELAY },
      retry_from_json : RetryFiles ]

\* The catalogs explored: product p holds the ((p + k) mod 3)-th initial
\* description (none, a short one, one of at least 50 characters), for a
\* shift k.
InitialDescriptionSeq == << NoText, << Run("x", 10) >>, << Run("x", 80) >> >>
Catalog(k) == [p \in Products |-> InitialDescriptionSeq[((p + k) % 3) + 1]]
Catalogs == { Catalog(k) : k \in 0..2 }

\* The runs explored: every combination of transaction mode, LLM use and
\* image download with the whole of one catalog as work list, and every
\* combination of transaction mode, commit interval and the options that
\* select the work list, without LLM and images, on every catalog.
ProcessingRun(o) ==
    /\ ~o.skip_existing /\ o.limit = 0 /\ o.retry_from_json.kind = "none"
    /\ o.commit_interval = 0
SelectionRun(o) == ~o.use_llm /\ ~o.download_images
Runs ==
    { [opts |-> o, catalog |-> Catalog(0)] : o \in { x \in AllOptions : ProcessingRun(x) } }
    \cup { [opts |-> o, catalog |-> c] : o \in { x \in AllOptions : SelectionRun(x) },
                                        c \in Catalogs }

----------------------------------------------------------------------------
(* State *)

VARIABLES
    pc,               \* position in handle / _process_products
    opts,             \* the options of the run
    catalog0,         \* the stored descriptions and image references before the run
    description,      \* product -> description as the run's connection sees it
    image_file,       \* product -> image reference as the run's connection sees it
    durable,          \* product -> [description, image_file] committed to the catalog
    media,            \* set of products with an image file in the media store
    retry_data,       \* records loaded from --retry-from-json
    llm_client,       \* TRUE when the OpenAI client was built
    products_list,    \* the work list
    idx,              \* number of WorkItems taken from the work list
    stats,            \* RunStats
    updated_products, \* the products whose description was written
    commit_counter,   \* accepted writes since the last batch commit
    commits,          \* number of transaction.commit() calls
    failed_products,  \* the Failure Ledger
    ledger_file,      \* what was written to the failed-products JSON
    item,             \* the WorkItem in hand
    delays,           \* the _random_delay sleeps since the last request was sent
    attempt,          \* times the request in flight was sent (0: none in flight)
    llm_calls,        \* chat completion calls made by the run
    text_in,          \* clean_description alone: the text given
    text_out,         \* clean_description alone: the text returned
    page_in,          \* the classifier alone: the page given
    listing_out,      \* the classifier alone: the value returned
    content,          \* the page content both passes of the pipeline are given
    results           \* what each pass of the pipeline returned

vars == << pc, opts, catalog0, description, image_file, durable, media, retry_data,
           llm_client, products_list, idx, stats, updated_products, commit_counter,
           commits, failed_products, ledger_file, item, delays, attempt, llm_calls,
           text_in, text_out,
           page_in, listing_out,
           content, results >>

NoFile == "no_file"

\* The elements of a page the classifier looks at: how many div.product-card,
\* div.product, article.product, div.item and div.card elements it holds,
\* whether a div's class says search, results or listing, and whether the h1
\* says results.
PageOf(pc_, p, a, i, c, sd, h1) ==
    [ product_card |-> pc_, product |-> p, article |-> a, item |-> i, card |-> c,
      search_div |-> sd, h1_results |-> h1 ]
NoPage == PageOf(0, 0, 0, 0, 0, FALSE, FALSE)
NoImage == << "no_image", 0 >>
ImageOf(p) == << "products", p >>

\* What a pass of the extraction pipeline is given: the domain of the URL,
\* the fetched page as the classifier reads it, whether the page's parse and
\* strategies run without raising, what the site rule and the generic
\* strategy find in it, what the model answers for it, and whether the LLM
\* fallback is enabled.
ContentOf(domain, page, parses, site, generic, llm, use_llm) ==
    [ domain |-> domain, page |-> page, parses |-> parses, site |-> site,
      generic |-> generic, llm |-> llm, use_llm |-> use_llm ]
NoContent ==
    ContentOf("none", [selected |-> << 0, 0, 0, 0 >>, search_div |-> FALSE,
                       h1_results |-> FALSE],
              FALSE, << >>, << >>, [kind |-> "error", text |-> << >>], FALSE)

FreshItem ==
    [ product |-> 0, url |-> "none", retry_info |-> FALSE,
      is_listing |-> FALSE, invoked |-> << >>,
      result |-> NoText, method |-> "none",
      llm |-> "none", error_type |-> "none", outcome |-> "pending",
      image |-> "none", image_urls |-> 0,
      page_gets |-> 0, status |-> 0,
      candidate |-> [ fetch_ok |-> FALSE, is_image |-> FALSE, content_length |-> 0,
                      size |-> 0 ] ]

ZeroStats ==
    [ processed |-> 0, updated |-> 0, skipped |-> 0, errors |-> 0,
      llm_used |-> 0, images_downloaded |-> 0, images_failed |-> 0 ]

Init ==
    /\ pc = "handle"
    /\ \E run \in Runs : opts = run.opts /\ description = run.catalog
    /\ image_file = [p \in Products |-> NoImage]
    /\ durable = [p \in Products |-> [description |-> description[p], image_file |-> NoImage]]
    /\ catalog0 = durable
    /\ media = {}
    /\ retry_data = << >>
    /\ llm_client = FALSE
    /\ products_list = << >>
    /\ idx = 0
    /\ stats = ZeroStats
    /\ updated_products = << >>
    /\ commit_counter = 0
    /\ commits = 0
    /\ failed_products = << >>
    /\ ledger_file = NoFile
    /\ item = FreshItem
    /\ delays = << >>
    /\ attempt = 0
    /\ llm_calls = 0
    /\ text_in = NoText
    /\ text_out = NoText
    /\ page_in = NoPage
    /\ listing_out = FALSE
    /\ content = NoContent
    /\ results = << >>

----------------------------------------------------------------------------
(* handle: options, retry file, LLM client, work list *)

\* Product.objects.all(), in the model's ordering, filtered on the stored
\* description when --skip-existing is given.
RECURSIVE QuerysetFrom(_, _, _)
QuerysetFrom(p, skip, desc) ==
    IF p > NumProducts THEN << >>
    ELSE IF (~skip) \/ desc[p] = NoText \/ TextLen(desc[p]) < MIN_DESCRIPTION_LENGTH
         THEN << p >> \o QuerysetFrom(p + 1, skip, desc)
         ELSE QuerysetFrom(p + 1, skip, desc)

\* ApplyLimit as it would be if --limit were not applied.
ApplyLimitOff(q, limit) == q

\* queryset[:limit] when limit is given.
ApplyLimit(q, limit) ==
    IF limit # 0 THEN SubSeq(q, 1, Min(limit, Len(q))) ELSE q

BuildWorkList(o, desc) ==
    ApplyLimit(QuerysetFrom(1, o.skip_existing, desc), o.limit)

\* handle up to the call of _process_products.  The retry file is read
\* first (a missing or unreadable file ends the command); the OpenAI client
\* is built when --use-llm is given (a missing library or key ends it).
HandleStart ==
    /\ pc = "handle"
    /\ \E llm_ready \in BOOLEAN :
        IF opts.retry_from_json.kind = "missing"
        THEN /\ pc' = "done"
             /\ UNCHANGED << retry_data, llm_client, products_list >>
        ELSE IF opts.use_llm /\ ~llm_ready
        THEN /\ pc' = "done"
             /\ retry_data' = opts.retry_from_json.records
             /\ UNCHANGED << llm_client, products_list >>
        ELSE /\ pc' = "loop"
             /\ retry_data' = opts.retry_from_json.records
             /\ llm_client' = opts.use_llm
             /\ products_list' = BuildWorkList(opts, description)
    /\ UNCHANGED << opts, catalog0, description, image_file, durable, media, idx, stats,
                    updated_products, commit_counter, commits, failed_products,
                    ledger_file, item >>
    /\ UNCHANGED << delays, attempt, llm_calls, text_in, text_out >>
    /\ UNCHANGED << page_in, listing_out >>
    /\ UNCHANGED << content, results >>

----------------------------------------------------------------------------
(* _process_products: one WorkItem *)

Bump(s, field) == [s EXCEPT ![field] = @ + 1]

\* Skipped as it would be if a skipped WorkItem were not counted.
SkippedUncounted(s) == s

\* stats['skipped'] += 1
Skipped(s) == Bump(s, "skipped")

AfterScrape == IF opts.download_images THEN "image" ELSE "validating"

\* Loop head: the next product of the work list, the skip-existing test and
\* the lookup of the offer URL.
NextItem ==
    /\ pc = "loop"
    /\ idx < Len(products_list)
    /\ idx' = idx + 1
    /\ LET product == products_list[idx + 1]
           it == [FreshItem EXCEPT !.product = product]
       IN  IF /\ opts.skip_existing
              /\ description[product] # NoText
              /\ TextLen(description[product]) >= MIN_DESCRIPTION_LENGTH
           THEN /\ item' = [it EXCEPT !.outcome = "skipped"]
                /\ stats' = Skipped(Bump(stats, "processed"))
                /\ pc' = "loop"
           ELSE \E offer \in { "none" } \cup Domains :
                  IF offer = "none"
                  THEN /\ item' = [it EXCEPT !.outcome = "skipped"]
                       /\ stats' = Skipped(Bump(stats, "processed"))
                       /\ pc' = "loop"
                  ELSE /\ item' = [it EXCEPT !.url = offer]
                       /\ stats' = Bump(stats, "processed")
                       /\ pc' = "fetching"
    /\ UNCHANGED << opts, catalog0, description, image_file, durable, media, retry_data,
                    llm_client, products_list, updated_products, commit_counter,
                    commits, failed_products, ledger_file >>
    /\ UNCHANGED << delays, attempt, llm_calls, text_in, text_out >>
    /\ UNCHANGED << page_in, listing_out >>
    /\ UNCHANGED << content, results >>

\* _random_delay(base_delay, variance): the sleep made when random.uniform
\* draws u.  Times are in milliseconds, variance and u in thousandths.
MIN_SLEEP == 500

\* random_delay as it would be without the minimum.
random_delay_no_floor(base_delay, variance, u) ==
    [ base |-> base_delay, variance |-> variance,
      slept |-> (base_delay * (1000 + u)) \div 1000 ]

random_delay(base_delay, variance, u) ==
    LET delay == (base_delay * (1000 + u)) \div 1000
    IN  [ base |-> base_delay, variance |-> variance,
          slept |-> IF delay > MIN_SLEEP THEN delay ELSE MIN_SLEEP ]

\* The draws of random.uniform(-variance, variance) explored: both ends and
\* the middle.
Jitter(variance) == { 0 - variance, 0, variance }

PAGE_DELAY == 500
PAGE_VARIANCE == 300
ITEM_VARIANCE == 400
IMAGE_PAGE_DELAY == 300
IMAGE_PAGE_VARIANCE == 200
IMAGE_DELAY == 200
IMAGE_VARIANCE == 100

\* The retry strategy mounted on the session: Retry(total=3,
\* status_forcelist=[429, 500, 502, 503, 504]) for GET.
RETRY_TOTAL == 3
STATUS_FORCELIST == { 429, 500, 502, 503, 504 }

\* The statuses a server answers with.
Statuses == { 200, 403, 404 } \cup STATUS_FORCELIST

\* is_retried as it would be if every error status were retried.
is_retried_any_error(status, retries) == status >= 400 /\ retries < RETRY_TOTAL

\* Whether the adapter sends the request again after an answer with this
\* status, when it already made this number of retries.
is_retried(status, retries) == status \in STATUS_FORCELIST /\ retries < RETRY_TOTAL

\* scrape_description up to the call of session.get: the headers and the
\* random delay before the request.
Fetch ==
    /\ pc = "fetching"
    /\ \E u \in Jitter(PAGE_VARIANCE) :
        delays' = Append(delays, random_delay(PAGE_DELAY, PAGE_VARIANCE, u))
    /\ pc' = "get"
    /\ UNCHANGED << opts, catalog0, description, image_file, durable, media, retry_data,
                    llm_client, products_list, idx, stats, updated_products,
                    commit_counter, commits, failed_products, ledger_file, item >>
    /\ UNCHANGED << attempt, llm_calls, text_in, text_out >>
    /\ UNCHANGED << page_in, listing_out >>
    /\ UNCHANGED << content, results >>

\* session.get of the page, raise_for_status and the parse.  The request is
\* sent; an answer with a status of the force list is retried by the adapter
\* until the retries are used up, which raises; any other error status is
\* raised by raise_for_status; the page of a good answer is parsed, which
\* may raise.
PageGet ==
    /\ pc = "get"
    /\ \E status \in Statuses :
        LET it == [item EXCEPT !.page_gets = IF attempt = 0 THEN @ + 1 ELSE @,
                               !.status = status]
        IN  IF is_retried(status, attempt)
            THEN /\ attempt' = attempt + 1
                 /\ item' = it
                 /\ pc' = "get"
            ELSE /\ attempt' = 0
                 /\ IF status >= 400
                    THEN /\ item' = [it EXCEPT !.error_type = "request"]
                         /\ pc' = "except"
                    ELSE \/ /\ item' = it
                            /\ pc' = "classifying"
                         \/ /\ item' = [it EXCEPT !.error_type = "parsing"]
                            /\ pc' = "except"
    /\ delays' = << >>
    /\ UNCHANGED << opts, catalog0, description, image_file, durable, media, retry_data,
                    llm_client, products_list, idx, stats, updated_products,
                    commit_counter, commits, failed_products, ledger_file >>
    /\ UNCHANGED << llm_calls, text_in, text_out >>
    /\ UNCHANGED << page_in, listing_out >>
    /\ UNCHANGED << content, results >>

----------------------------------------------------------------------------
(* Page classifier *)

LISTING_THRESHOLD == 5

\* What the classifier reads of a parsed page: the number of elements each
\* of its four selectors matches (div[class*=product], article[class*=product],
\* div[class*=item], div[class*=card]) and the two search indicators.
Page(dp, ap, di, dc, sd, h1) ==
    [ selected |-> << dp, ap, di, dc >>, search_div |-> sd, h1_results |-> h1 ]

Pages ==
    { Page(0, 0, 0, 0, FALSE, FALSE),     \* a plain product page
      Page(1, 0, 2, 0, FALSE, FALSE),     \* a product page with a few blocks
      Page(3, 0, 0, 3, FALSE, FALSE),     \* three div.product-card
      Page(8, 0, 0, 8, FALSE, FALSE),     \* eight div.product-card
      Page(0, 0, 6, 0, FALSE, FALSE),     \* six div.item
      Page(0, 0, 0, 0, TRUE, FALSE),      \* a div whose class says search/results/listing
      Page(0, 0, 0, 0, FALSE, TRUE) }     \* an h1 saying results

\* The counting loop: the lengths of the non-empty selections are summed in
\* order, and the page is a listing as soon as the sum passes the threshold.
RECURSIVE CountPasses(_, _, _)
CountPasses(selected, i, product_count) ==
    IF i > Len(selected) THEN FALSE
    ELSE LET c == product_count + selected[i]
         IN  IF selected[i] > 0 /\ c > LISTING_THRESHOLD THEN TRUE
             ELSE CountPasses(selected, i + 1, c)

is_product_listing_page(page) ==
    \/ CountPasses(page.selected, 1, 0)
    \/ page.search_div
    \/ page.h1_results

\* Classify as it would be if a listing page went on to the strategies.
ClassifyIgnoresListing ==
    /\ pc = "classifying"
    /\ \E page \in Pages :
        item' = [item EXCEPT !.is_listing = is_product_listing_page(page)]
    /\ pc' = "site"
    /\ UNCHANGED << opts, catalog0, description, image_file, durable, media, retry_data,
                    llm_client, products_list, idx, stats, updated_products,
                    commit_counter, commits, failed_products, ledger_file >>
    /\ UNCHANGED << delays, attempt, llm_calls, text_in, text_out >>
    /\ UNCHANGED << page_in, listing_out >>
    /\ UNCHANGED << content, results >>

\* scrape_description: classification of the fetched page.  A listing goes
\* to the LLM when it is enabled, and ends the extraction with None otherwise.
Classify ==
    /\ pc = "classifying"
    /\ \E page \in Pages :
        LET is_listing == is_product_listing_page(page)
        IN  /\ item' = [item EXCEPT !.is_listing = is_listing]
            /\ pc' = IF is_listing
                     THEN (IF opts.use_llm /\ llm_client THEN "llm" ELSE AfterScrape)
                     ELSE "site"
    /\ UNCHANGED << opts, catalog0, description, image_file, durable, media, retry_data,
                    llm_client, products_list, idx, stats, updated_products,
                    commit_counter, commits, failed_products, ledger_file >>
    /\ UNCHANGED << delays, attempt, llm_calls, text_in, text_out >>
    /\ UNCHANGED << page_in, listing_out >>
    /\ UNCHANGED << content, results >>

----------------------------------------------------------------------------
(* Extraction strategy chain *)

\* SiteMethod as it would be if no name were recorded for a site rule.
SiteMethodNone(domain) == "none"

\* The method name of the rule of a domain.
SiteMethod(domain) ==
    CASE domain = "iris.ma" -> "iris_ma_specific"
      [] domain = "primini.ma" -> "primini_ma_specific"
      [] domain = "biougnach.ma" -> "biougnach_ma_specific"
      [] domain = "jumia.ma" -> "jumia_specific"

\* description and len(description.strip()) >= 50
LongEnough(t) == t # NoText /\ TextLen(Strip(t)) >= MIN_DESCRIPTION_LENGTH

\* The domain-specific branch: the rule of the URL's domain, if there is one.
\* A strategy may raise, which scrape_description reports as a parsing failure.
ExtractSite ==
    /\ pc = "site"
    /\ IF item.url \in SiteDomains
       THEN \/ \E t \in StrategyReturns :
                 LET method == IF t # NoText THEN SiteMethod(item.url) ELSE "none"
                     it == [item EXCEPT !.invoked = Append(@, "site_specific")]
                 IN  IF LongEnough(t)
                     THEN /\ item' = [it EXCEPT !.result = t, !.method = method]
                          /\ pc' = AfterScrape
                     ELSE /\ item' = it
                          /\ pc' = "generic"
            \/ /\ item' = [item EXCEPT !.invoked = Append(@, "site_specific"),
                                       !.error_type = "parsing"]
               /\ pc' = "except"
       ELSE /\ item' = item
            /\ pc' = "generic"
    /\ UNCHANGED << opts, catalog0, description, image_file, durable, media, retry_data,
                    llm_client, products_list, idx, stats, updated_products,
                    commit_counter, commits, failed_products, ledger_file >>
    /\ UNCHANGED << delays, attempt, llm_calls, text_in, text_out >>
    /\ UNCHANGED << page_in, listing_out >>
    /\ UNCHANGED << content, results >>

\* ExtractGeneric as it would be if the LLM were called without looking at
\* the --use-llm option.
ExtractGenericAlwaysLlm ==
    /\ pc = "generic"
    /\ \E t \in StrategyReturns :
         LET it == [item EXCEPT !.invoked = Append(@, "generic_fallback")]
         IN  IF LongEnough(t)
             THEN /\ item' = [it EXCEPT !.result = t, !.method = "generic_fallback"]
                  /\ pc' = AfterScrape
             ELSE /\ item' = it
                  /\ pc' = "llm"
    /\ UNCHANGED << opts, catalog0, description, image_file, durable, media, retry_data,
                    llm_client, products_list, idx, stats, updated_products,
                    commit_counter, commits, failed_products, ledger_file >>
    /\ UNCHANGED << delays, attempt, llm_calls, text_in, text_out >>
    /\ UNCHANGED << page_in, listing_out >>
    /\ UNCHANGED << content, results >>

\* The generic fallback, then the decision to call the LLM.
ExtractGeneric ==
    /\ pc = "generic"
    /\ \/ \E t \in StrategyReturns :
            LET it == [item EXCEPT !.invoked = Append(@, "generic_fallback")]
            IN  IF LongEnough(t)
                THEN /\ item' = [it EXCEPT !.result = t, !.method = "generic_fallback"]
                     /\ pc' = AfterScrape
                ELSE /\ item' = it
                     /\ pc' = IF opts.use_llm /\ llm_client THEN "llm" ELSE AfterScrape
       \/ /\ item' = [item EXCEPT !.invoked = Append(@, "generic_fallback"),
                                  !.error_type = "parsing"]
          /\ pc' = "except"
    /\ UNCHANGED << opts, catalog0, description, image_file, durable, media, retry_data,
                    llm_client, products_list, idx, stats, updated_products,
                    commit_counter, commits, failed_products, ledger_file >>
    /\ UNCHANGED << delays, attempt, llm_calls, text_in, text_out >>
    /\ UNCHANGED << page_in, listing_out >>
    /\ UNCHANGED << content, results >>

\* _extract_with_llm: how the call ends.  An exception anywhere in it is
\* caught; the answer is stripped, tested for the sentinel, then for length.
llm_result(resp) ==
    IF resp.kind = "error" THEN "error"
    ELSE IF resp.kind = "not_found" THEN "not_found"
    ELSE IF TextLen(Strip(resp.text)) < MIN_DESCRIPTION_LENGTH THEN "too_short"
    ELSE "success"

\* extract_with_llm as it would be without the test for the sentinel.
extract_with_llm_no_sentinel(resp) ==
    IF resp.kind # "error" /\ TextLen(Strip(resp.text)) >= MIN_DESCRIPTION_LENGTH
    THEN Strip(resp.text) ELSE NoText

\* _extract_with_llm: the value returned, the stripped answer on success
\* and None otherwise.
extract_with_llm(resp) ==
    IF llm_result(resp) = "success" THEN Strip(resp.text) ELSE NoText

\* ExtractLLM as it would be if an exception of the call were not caught.
ExtractLLMRaises ==
    /\ pc = "llm"
    /\ \E resp \in LlmResponses :
        LET result == extract_with_llm(resp)
            it == [item EXCEPT !.invoked = Append(@, "llm"), !.llm = llm_result(resp)]
        IN  IF resp.kind = "error"
            THEN /\ item' = [it EXCEPT !.error_type = "parsing"]
                 /\ pc' = "except"
            ELSE /\ item' = IF result # NoText
                            THEN [it EXCEPT !.result = result,
                                            !.method = IF item.is_listing
                                                       THEN "llm_listing_page"
                                                       ELSE "llm_fallback"]
                            ELSE it
                 /\ pc' = AfterScrape
    /\ UNCHANGED << opts, catalog0, description, image_file, durable, media, retry_data,
                    llm_client, products_list, idx, stats, updated_products,
                    commit_counter, commits, failed_products, ledger_file >>
    /\ llm_calls' = llm_calls + 1
    /\ UNCHANGED << delays, attempt, text_in, text_out >>
    /\ UNCHANGED << page_in, listing_out >>
    /\ UNCHANGED << content, results >>

\* The call of the LLM fallback from scrape_description, for a listing page
\* or after the other strategies failed.
ExtractLLM ==
    /\ pc = "llm"
    /\ \E resp \in LlmResponses :
        LET result == extract_with_llm(resp)
            it == [item EXCEPT !.invoked = Append(@, "llm"), !.llm = llm_result(resp)]
        IN  item' = IF result # NoText
                    THEN [it EXCEPT !.result = result,
                                    !.method = IF item.is_listing THEN "llm_listing_page"
                                               ELSE "llm_fallback"]
                    ELSE it
    /\ pc' = AfterScrape
    /\ UNCHANGED << opts, catalog0, description, image_file, durable, media, retry_data,
                    llm_client, products_list, idx, stats, updated_products,
                    commit_counter, commits, failed_products, ledger_file >>
    /\ llm_calls' = llm_calls + 1
    /\ UNCHANGED << delays, attempt, text_in, text_out >>
    /\ UNCHANGED << page_in, listing_out >>
    /\ UNCHANGED << content, results >>

----------------------------------------------------------------------------
(* Image download *)

BYTES_PER_MB == 1048576
MAX_IMAGE_URLS == 3

\* An image candidate as the download loop sees it: whether its GET succeeds,
\* whether the content-type starts with image/, the declared content-length
\* (0 when the header is absent) and the number of bytes of the body.
Candidate(ok, img, declared, size) ==
    [ fetch_ok |-> ok, is_image |-> img, content_length |-> declared, size |-> size ]

\* A good image, a failing GET, a response that is not an image, an image
\* declared over the cap, an image over the cap with no content-length, an
\* image over the cap declared under it, an image of exactly 5 MB and one of
\* a byte more.
CandidateKinds ==
    { Candidate(TRUE, TRUE, 1000000, 1000000),
      Candidate(FALSE, TRUE, 0, 0),
      Candidate(TRUE, FALSE, 1000, 1000),
      Candidate(TRUE, TRUE, 6000000, 6000000),
      Candidate(TRUE, TRUE, 0, 6000000),
      Candidate(TRUE, TRUE, 1000, 6000000),
      Candidate(TRUE, TRUE, 5242880, 5242880),
      Candidate(TRUE, TRUE, 0, 5242881) }

\* No candidate is being requested.
NoCandidate == Candidate(FALSE, FALSE, 0, 0)

\* TooLarge as it would be if the size in MB were rounded down.
TooLargeRoundedDown(bytes, max_mb) == bytes \div BYTES_PER_MB > max_mb

\* size_mb = bytes / (1024 * 1024); size_mb > max_image_size_mb
TooLarge(bytes, max_mb) == bytes > max_mb * BYTES_PER_MB

Acceptable(c, max_mb) ==
    /\ c.fetch_ok
    /\ c.is_image
    /\ ~(c.content_length # 0 /\ TooLarge(c.content_length, max_mb))
    /\ ~TooLarge(c.size, max_mb)

\* The number of image URLs extract_image_urls returns for a page on which
\* n candidate URLs are found: at most three.
extract_image_urls(n) == Min(MAX_IMAGE_URLS, n)

MaxImagesOnPage == 4

\* ImageFailed as it would be if a failed image counted as an error of the
\* WorkItem.
ImageFailedCountsError(s) == Bump(Bump(s, "images_failed"), "errors")

\* The image step of the loop body when download_product_image returns
\* nothing or raises: the failure is counted and nothing else changes.
ImageFailed(s) == Bump(s, "images_failed")

\* download_product_image up to the call of session.get: the headers and
\* the random delay before the request.
ImagePageDelay ==
    /\ pc = "image"
    /\ \E u \in Jitter(IMAGE_PAGE_VARIANCE) :
        delays' = Append(delays, random_delay(IMAGE_PAGE_DELAY, IMAGE_PAGE_VARIANCE, u))
    /\ pc' = "image_get"
    /\ UNCHANGED << opts, catalog0, description, image_file, durable, media, retry_data,
                    llm_client, products_list, idx, stats, updated_products,
                    commit_counter, commits, failed_products, ledger_file, item >>
    /\ UNCHANGED << attempt, llm_calls, text_in, text_out >>
    /\ UNCHANGED << page_in, listing_out >>
    /\ UNCHANGED << content, results >>

\* ImageFetch as it would be if an exception in the image step were not
\* caught.
ImageFetchRaises ==
    /\ pc = "image_get"
    /\ stats' = Bump(stats, "images_failed")
    /\ item' = [item EXCEPT !.image = "failed", !.error_type = "image",
                            !.page_gets = @ + 1]
    /\ pc' = "except"
    /\ delays' = << >>
    /\ UNCHANGED << opts, catalog0, description, image_file, durable, media, retry_data,
                    llm_client, products_list, idx, updated_products, commit_counter,
                    commits, failed_products, ledger_file >>
    /\ UNCHANGED << attempt, llm_calls, text_in, text_out >>
    /\ UNCHANGED << page_in, listing_out >>
    /\ UNCHANGED << content, results >>

\* download_product_image from session.get to the download loop: the page
\* is requested again and its image URLs extracted.  A failing GET or parse
\* is caught and, like a page without image URLs, makes the image outcome a
\* failure.  The adapter's retries of this request are part of its outcome.
ImageFetch ==
    /\ pc = "image_get"
    /\ \E page_ok \in BOOLEAN, n \in 0..MaxImagesOnPage :
        LET image_urls == IF page_ok THEN extract_image_urls(n) ELSE 0
            it == [item EXCEPT !.page_gets = @ + 1]
        IN  IF image_urls = 0
            THEN /\ stats' = ImageFailed(stats)
                 /\ item' = [it EXCEPT !.image = "failed"]
                 /\ pc' = "validating"
            ELSE /\ stats' = stats
                 /\ item' = [it EXCEPT !.image_urls = image_urls]
                 /\ pc' = "image_try"
    /\ delays' = << >>
    /\ UNCHANGED << opts, catalog0, description, image_file, durable, media, retry_data,
                    llm_client, products_list, idx, updated_products, commit_counter,
                    commits, failed_products, ledger_file >>
    /\ UNCHANGED << attempt, llm_calls, text_in, text_out >>
    /\ UNCHANGED << page_in, listing_out >>
    /\ UNCHANGED << content, results >>

\* The head of one turn of the download loop: the next image URL (with what
\* its server will answer), the headers of the request and the random delay
\* before it.
ImageDelay ==
    /\ pc = "image_try"
    /\ \E u \in Jitter(IMAGE_VARIANCE) :
        delays' = Append(delays, random_delay(IMAGE_DELAY, IMAGE_VARIANCE, u))
    /\ \E c \in CandidateKinds : item' = [item EXCEPT !.candidate = c]
    /\ pc' = "image_download"
    /\ UNCHANGED << opts, catalog0, description, image_file, durable, media, retry_data,
                    llm_client, products_list, idx, stats, updated_products,
                    commit_counter, commits, failed_products, ledger_file >>
    /\ UNCHANGED << attempt, llm_calls, text_in, text_out >>
    /\ UNCHANGED << page_in, listing_out >>
    /\ UNCHANGED << content, results >>

\* The rest of the turn: the candidate is requested; an acceptable one is
\* written to the media store and the product's image reference saved, which
\* ends the loop; any other one (an exception included) is passed over, and
\* after the last one the image outcome is a failure.
ImageTry ==
    /\ pc = "image_download"
    /\ LET p == item.product
            c == item.candidate
        IN  IF Acceptable(c, opts.max_image_size)
            THEN /\ media' = media \cup { p }
                 /\ image_file' = [image_file EXCEPT ![p] = ImageOf(p)]
                 /\ durable' = IF opts.rollback_on_error THEN durable
                               ELSE [durable EXCEPT ![p].image_file = ImageOf(p)]
                 /\ stats' = Bump(stats, "images_downloaded")
                 /\ item' = [item EXCEPT !.image = "downloaded", !.image_urls = 0,
                                         !.candidate = NoCandidate]
                 /\ pc' = "validating"
            ELSE /\ UNCHANGED << media, image_file, durable >>
                 /\ IF item.image_urls = 1
                    THEN /\ stats' = ImageFailed(stats)
                         /\ item' = [item EXCEPT !.image = "failed", !.image_urls = 0,
                                                 !.candidate = NoCandidate]
                         /\ pc' = "validating"
                    ELSE /\ stats' = stats
                         /\ item' = [item EXCEPT !.image_urls = @ - 1,
                                                 !.candidate = NoCandidate]
                         /\ pc' = "image_try"
    /\ delays' = << >>
    /\ UNCHANGED << opts, catalog0, description, retry_data, llm_client, products_list,
                    idx, updated_products, commit_counter, commits, failed_products,
                    ledger_file >>
    /\ UNCHANGED << attempt, llm_calls, text_in, text_out >>
    /\ UNCHANGED << page_in, listing_out >>
    /\ UNCHANGED << content, results >>

----------------------------------------------------------------------------
(* Validation and the catalog write *)

IsLlmMethod(m) == m \in { "llm_fallback", "llm_listing_page" }

\* AfterSkip as it would be if a text that cleans too short sent the
\* WorkItem on to the LLM fallback.
AfterSkipTriesLlm(it) ==
    IF it.result # NoText /\ ~IsLlmMethod(it.method) THEN "llm" ELSE "loop"

\* Where the loop body goes after it counted a WorkItem as skipped: to the
\* next WorkItem.
AfterSkip(it) == "loop"

\* Validate as it would be if a WorkItem without an acceptable text were
\* fetched again.
ValidateRefetches ==
    /\ pc = "validating"
    /\ LET p == item.product
           cleaned == clean_description(item.result)
       IN  IF item.result # NoText /\ TextLen(cleaned) >= MIN_DESCRIPTION_LENGTH
           THEN \E save_ok \in BOOLEAN :
                  /\ updated_products' = Append(updated_products,
                        [product |-> p, original_description |-> description[p]])
                  /\ IF save_ok
                     THEN /\ description' = [description EXCEPT ![p] = cleaned]
                          /\ durable' = IF opts.rollback_on_error THEN durable
                                        ELSE [durable EXCEPT ![p].description = cleaned]
                          /\ stats' = LET s1 == IF IsLlmMethod(item.method)
                                                THEN Bump(stats, "llm_used") ELSE stats
                                      IN  Bump(s1, "updated")
                          /\ IF /\ ~opts.rollback_on_error
                                /\ opts.commit_interval > 0
                                /\ commit_counter + 1 >= opts.commit_interval
                             THEN commit_counter' = 0 /\ commits' = commits + 1
                             ELSE commit_counter' = commit_counter + 1 /\ commits' = commits
                          /\ item' = [item EXCEPT !.outcome = "persisted"]
                          /\ pc' = "loop"
                     ELSE /\ item' = [item EXCEPT !.error_type = "persistence"]
                          /\ pc' = "except"
                          /\ UNCHANGED << description, durable, stats, commit_counter, commits >>
           ELSE /\ stats' = stats
                /\ item' = [item EXCEPT !.result = NoText, !.method = "none"]
                /\ pc' = "fetching"
                /\ UNCHANGED << description, durable, updated_products, commit_counter, commits >>
    /\ UNCHANGED << opts, catalog0, image_file, media, retry_data, llm_client,
                    products_list, idx, failed_products, ledger_file >>
    /\ UNCHANGED << delays, attempt, llm_calls, text_in, text_out >>
    /\ UNCHANGED << page_in, listing_out >>
    /\ UNCHANGED << content, results >>

\* The description_result handling: no text is a skip; a text is cleaned and
\* written when the cleaned text has at least 50 characters, and is a skip
\* otherwise.  product.save may raise.
Validate ==
    /\ pc = "validating"
    /\ LET p == item.product
           cleaned == clean_description(item.result)
       IN  IF item.result # NoText /\ TextLen(cleaned) >= MIN_DESCRIPTION_LENGTH
           THEN \E save_ok \in BOOLEAN :
                  /\ updated_products' = Append(updated_products,
                        [product |-> p, original_description |-> description[p]])
                  /\ IF save_ok
                     THEN /\ description' = [description EXCEPT ![p] = cleaned]
                          /\ durable' = IF opts.rollback_on_error THEN durable
                                        ELSE [durable EXCEPT ![p].description = cleaned]
                          /\ stats' = LET s1 == IF IsLlmMethod(item.method)
                                                THEN Bump(stats, "llm_used") ELSE stats
                                      IN  Bump(s1, "updated")
                          /\ IF /\ ~opts.rollback_on_error
                                /\ opts.commit_interval > 0
                                /\ commit_counter + 1 >= opts.commit_interval
                             THEN commit_counter' = 0 /\ commits' = commits + 1
                             ELSE commit_counter' = commit_counter + 1 /\ commits' = commits
                          /\ item' = [item EXCEPT !.outcome = "persisted"]
                          /\ pc' = "loop"
                     ELSE /\ item' = [item EXCEPT !.error_type = "persistence"]
                          /\ pc' = "except"
                          /\ UNCHANGED << description, durable, stats, commit_counter, commits >>
           ELSE /\ stats' = Skipped(stats)
                /\ item' = [item EXCEPT !.outcome = "skipped"]
                /\ pc' = AfterSkip(item)
                /\ UNCHANGED << description, durable, updated_products, commit_counter, commits >>
    /\ UNCHANGED << opts, catalog0, image_file, media, retry_data, llm_client,
                    products_list, idx, failed_products, ledger_file >>
    /\ UNCHANGED << delays, attempt, llm_calls, text_in, text_out >>
    /\ UNCHANGED << page_in, listing_out >>
    /\ UNCHANGED << content, results >>

\* ItemError as it would be if the exception were raised again in every mode.
ItemErrorStops ==
    /\ pc = "except"
    /\ stats' = Bump(stats, "errors")
    /\ failed_products' = Append(failed_products,
          [ product_id |-> item.product, url |-> item.url, error |-> item.error_type,
            retry_count |-> 0 ])
    /\ item' = [item EXCEPT !.outcome = "failed"]
    /\ pc' = "abort"
    /\ UNCHANGED << opts, catalog0, description, image_file, durable, media, retry_data,
                    llm_client, products_list, idx, updated_products, commit_counter,
                    commits, ledger_file >>
    /\ UNCHANGED << delays, attempt, llm_calls, text_in, text_out >>
    /\ UNCHANGED << page_in, listing_out >>
    /\ UNCHANGED << content, results >>

\* FailureRecord as it would be if the record did not name the product.
FailureRecordUnnamed(it) ==
    [ product_id |-> 0, url |-> it.url, error |-> it.error_type, retry_count |-> 0 ]

\* The record of a failed WorkItem.  retry_info is never set (the records
\* of the retry file are not looked up), so the retry count written is 0.
FailureRecord(it) ==
    [ product_id |-> it.product, url |-> it.url, error |-> it.error_type,
      retry_count |-> 0 ]

\* The except clause of the loop body: the error is counted, a FailureRecord
\* is appended, and in rollback mode the exception is raised again; otherwise
\* the delay between requests is made when a WorkItem is left to process.
ItemError ==
    /\ pc = "except"
    /\ stats' = Bump(stats, "errors")
    /\ failed_products' = Append(failed_products, FailureRecord(item))
    /\ item' = [item EXCEPT !.outcome = "failed"]
    /\ pc' = IF opts.rollback_on_error THEN "abort" ELSE "loop"
    /\ UNCHANGED << opts, catalog0, description, image_file, durable, media, retry_data,
                    llm_client, products_list, idx, updated_products, commit_counter,
                    commits, ledger_file >>
    /\ IF ~opts.rollback_on_error /\ stats.processed < Len(products_list)
       THEN \E u \in Jitter(ITEM_VARIANCE) :
              delays' = Append(delays, random_delay(opts.delay, ITEM_VARIANCE, u))
       ELSE delays' = delays
    /\ UNCHANGED << attempt, llm_calls, text_in, text_out >>
    /\ UNCHANGED << page_in, listing_out >>
    /\ UNCHANGED << content, results >>

----------------------------------------------------------------------------
(* End of the run *)

Stored == [p \in Products |-> [description |-> description[p], image_file |-> image_file[p]]]

\* _process_products returns.  In rollback mode the atomic block is left
\* normally and the transaction commits.
EndLoop ==
    /\ pc = "loop"
    /\ idx = Len(products_list)
    /\ durable' = IF opts.rollback_on_error THEN Stored ELSE durable
    /\ pc' = "summary"
    /\ UNCHANGED << opts, catalog0, description, image_file, media, retry_data, llm_client,
                    products_list, idx, stats, updated_products, commit_counter, commits,
                    failed_products, ledger_file, item >>
    /\ UNCHANGED << delays, attempt, llm_calls, text_in, text_out >>
    /\ UNCHANGED << page_in, listing_out >>
    /\ UNCHANGED << content, results >>

\* Abort as it would be if the exception were caught inside the atomic block:
\* the transaction commits what the run wrote.
AbortCommits ==
    /\ pc = "abort"
    /\ durable' = Stored
    /\ stats' = Bump(stats, "errors")
    /\ pc' = "summary"
    /\ UNCHANGED << opts, catalog0, description, image_file, media, retry_data, llm_client,
                    products_list, idx, updated_products, commit_counter, commits,
                    failed_products, ledger_file, item >>
    /\ UNCHANGED << delays, attempt, llm_calls, text_in, text_out >>
    /\ UNCHANGED << page_in, listing_out >>
    /\ UNCHANGED << content, results >>

\* handle's except clause in rollback mode: the atomic block is left by the
\* exception, every catalog write of the run is rolled back, the error is
\* counted and the command goes on to the summary.
Abort ==
    /\ pc = "abort"
    /\ description' = [p \in Products |-> durable[p].description]
    /\ image_file' = [p \in Products |-> durable[p].image_file]
    /\ stats' = Bump(stats, "errors")
    /\ pc' = "summary"
    /\ UNCHANGED << opts, catalog0, durable, media, retry_data, llm_client, products_list,
                    idx, updated_products, commit_counter, commits, failed_products,
                    ledger_file, item >>
    /\ UNCHANGED << delays, attempt, llm_calls, text_in, text_out >>
    /\ UNCHANGED << page_in, listing_out >>
    /\ UNCHANGED << content, results >>

\* Summary as it would be if only the last record were written to the file.
SummaryWritesLast ==
    /\ pc = "summary"
    /\ ledger_file' = IF failed_products # << >>
                     THEN << failed_products[Len(failed_products)] >> ELSE ledger_file
    /\ pc' = "done"
    /\ UNCHANGED << opts, catalog0, description, image_file, durable, media, retry_data,
                    llm_client, products_list, idx, stats, updated_products,
                    commit_counter, commits, failed_products, item >>
    /\ UNCHANGED << delays, attempt, llm_calls, text_in, text_out >>
    /\ UNCHANGED << page_in, listing_out >>
    /\ UNCHANGED << content, results >>

\* The summary and the writing of the failed-products JSON.
Summary ==
    /\ pc = "summary"
    /\ ledger_file' = IF failed_products # << >> THEN failed_products ELSE ledger_file
    /\ pc' = "done"
    /\ UNCHANGED << opts, catalog0, description, image_file, durable, media, retry_data,
                    llm_client, products_list, idx, stats, updated_products,
                    commit_counter, commits, failed_products, item >>
    /\ UNCHANGED << delays, attempt, llm_calls, text_in, text_out >>
    /\ UNCHANGED << page_in, listing_out >>
    /\ UNCHANGED << content, results >>

Next ==
    \/ HandleStart
    \/ NextItem
    \/ Fetch
    \/ PageGet
    \/ Classify
    \/ ExtractSite
    \/ ExtractGeneric
    \/ ExtractLLM
    \/ ImagePageDelay
    \/ ImageFetch
    \/ ImageDelay
    \/ ImageTry
    \/ Validate
    \/ ItemError
    \/ EndLoop
    \/ Abort
    \/ Summary

Spec == Init /\ [][Next]_vars

----------------------------------------------------------------------------
(* clean_description alone, applied to a text and then to its own output *)

\* The runs the texts given to clean_description are made of, and the
\* texts: every normalised text of at most MaxRuns runs, the empty one
\* included.
MaxRuns == 3

TextRuns ==
    { Run("x", n) : n \in { 1, 25, 1996, 2000 } }
    \cup { Run("s", n) : n \in { 1, 2 } }
    \cup { Run("b", n) : n \in { 1, 2 } }
    \cup { Run("d", n) : n \in { 1, 2, 3 } }

RECURSIVE TextsOf(_)
TextsOf(k) ==
    IF k = 0 THEN { << >> }
    ELSE LET shorter == TextsOf(k - 1)
         IN  shorter \cup { Append(t, r) : t \in shorter, r \in TextRuns }

Normalised(t) == \A i \in 1..(Len(t) - 1) : t[i].c # t[i + 1].c

CleanInputs == { t \in TextsOf(MaxRuns) : Normalised(t) }

InitClean ==
    /\ pc = "text"
    /\ text_in \in CleanInputs
    /\ text_out = NoText
    /\ opts \in { o \in AllOptions : /\ ProcessingRun(o) /\ ~o.rollback_on_error
                                     /\ ~o.use_llm /\ ~o.download_images }
    /\ description = Catalog(0)
    /\ image_file = [p \in Products |-> NoImage]
    /\ durable = [p \in Products |-> [description |-> description[p], image_file |-> NoImage]]
    /\ catalog0 = durable
    /\ media = {}
    /\ retry_data = << >>
    /\ llm_client = FALSE
    /\ products_list = << >>
    /\ idx = 0
    /\ stats = ZeroStats
    /\ updated_products = << >>
    /\ commit_counter = 0
    /\ commits = 0
    /\ failed_products = << >>
    /\ ledger_file = NoFile
    /\ item = FreshItem
    /\ delays = << >>
    /\ attempt = 0
    /\ llm_calls = 0
    /\ page_in = NoPage
    /\ listing_out = FALSE
    /\ content = NoContent
    /\ results = << >>

\* clean_description(text)
CleanText ==
    /\ pc = "text"
    /\ text_out' = clean_description(text_in)
    /\ pc' = "cleaned"
    /\ UNCHANGED << opts, catalog0, description, image_file, durable, media, retry_data,
                    llm_client, products_list, idx, stats, updated_products,
                    commit_counter, commits, failed_products, ledger_file, item,
                    delays, attempt, llm_calls, text_in >>
    /\ UNCHANGED << page_in, listing_out >>
    /\ UNCHANGED << content, results >>

\* clean_description applied to the text it returned.
CleanAgain ==
    /\ pc = "cleaned"
    /\ text_in' = text_out
    /\ text_out' = clean_description(text_out)
    /\ pc' = "recleaned"
    /\ UNCHANGED << opts, catalog0, description, image_file, durable, media, retry_data,
                    llm_client, products_list, idx, stats, updated_products,
                    commit_counter, commits, failed_products, ledger_file, item,
                    delays, attempt, llm_calls >>
    /\ UNCHANGED << page_in, listing_out >>
    /\ UNCHANGED << content, results >>

NextClean ==
    \/ CleanText
    \/ CleanAgain

SpecClean == InitClean /\ [][NextClean]_vars

----------------------------------------------------------------------------
(* _is_product_listing_page alone, applied to a page *)

MaxElements == 8

ElementCounts == { 0, 3, 5, 6, MaxElements }

PageElements ==
    { PageOf(n1, n2, n3, n4, n5, sd, h1) :
        n1 \in ElementCounts, n2 \in ElementCounts, n3 \in ElementCounts,
        n4 \in ElementCounts, n5 \in ElementCounts, sd \in BOOLEAN, h1 \in BOOLEAN }

\* What the four selectors match on a page: a div.product-card is matched by
\* div[class*="product"] and by div[class*="card"].
Selected(e) ==
    Page(e.product_card + e.product, e.article, e.item, e.card + e.product_card,
         e.search_div, e.h1_results)

\* The number of elements of a page whose class says product, item or card.
DistinctElements(e) == e.product_card + e.product + e.article + e.item + e.card

\* No run of the command is going on.
NoRun ==
    /\ opts \in { o \in AllOptions : /\ ProcessingRun(o) /\ ~o.rollback_on_error
                                     /\ ~o.use_llm /\ ~o.download_images }
    /\ description = Catalog(0)
    /\ image_file = [p \in Products |-> NoImage]
    /\ durable = [p \in Products |-> [description |-> description[p], image_file |-> NoImage]]
    /\ catalog0 = durable
    /\ media = {}
    /\ retry_data = << >>
    /\ llm_client = FALSE
    /\ products_list = << >>
    /\ idx = 0
    /\ stats = ZeroStats
    /\ updated_products = << >>
    /\ commit_counter = 0
    /\ commits = 0
    /\ failed_products = << >>
    /\ ledger_file = NoFile
    /\ item = FreshItem
    /\ delays = << >>
    /\ attempt = 0
    /\ llm_calls = 0
    /\ content = NoContent
    /\ results = << >>

InitListing ==
    /\ pc = "page"
    /\ page_in \in PageElements
    /\ listing_out = FALSE
    /\ text_in = NoText
    /\ text_out = NoText
    /\ NoRun

\* _is_product_listing_page(soup, domain)
ClassifyPage ==
    /\ pc = "page"
    /\ listing_out' = is_product_listing_page(Selected(page_in))
    /\ pc' = "classified"
    /\ UNCHANGED << opts, catalog0, description, image_file, durable, media, retry_data,
                    llm_client, products_list, idx, stats, updated_products,
                    commit_counter, commits, failed_products, ledger_file, item,
                    delays, attempt, llm_calls, text_in, text_out, page_in >>
    /\ UNCHANGED << content, results >>

NextListing == ClassifyPage

SpecListing == InitListing /\ [][NextListing]_vars

----------------------------------------------------------------------------
(* The extraction pipeline alone, run twice on the same content *)

Passes == 2

\* Two of the six USER_AGENTS.
UserAgents == { 1, 6 }

\* The page contents explored: a product page or a listing, on a domain with
\* a rule or without one, with every combination of a site text, a generic
\* text and a model answer that is missing, unusable or good.
Contents ==
    { ContentOf(domain, page, parses, site, generic, llm, use_llm) :
        domain \in Domains,
        page \in { Page(0, 0, 0, 0, FALSE, FALSE), Page(8, 0, 0, 8, FALSE, FALSE) },
        parses \in BOOLEAN,
        site \in { NoText, << Run("x", 30) >>, << Run("x", 60) >> },
        generic \in { NoText, << Run("x", 60) >>, << Run("x", 25), Run("d", 40) >> },
        llm \in { [kind |-> "error", text |-> NoText],
                  [kind |-> "not_found", text |-> << Run("x", 9) >>],
                  [kind |-> "text", text |-> << Run("s", 2), Run("x", 60) >>] },
        use_llm \in BOOLEAN }

\* The value returned when no strategy gives a text, and the one standing for
\* the exception raised when the parse or a strategy fails.
NoDescription == [description |-> NoText, method |-> "none"]
Raised == [description |-> NoText, method |-> "raised"]

\* scrape_description(url, ...) on a page whose GET answers with the content
\* c: the headers carry the user agent drawn, the sleep before the request
\* lasts what the draw u makes it, and the answer is parsed, classified and
\* handed to the strategies in their order.
scrape_description(c, user_agent, u) ==
    LET headers == [User_Agent |-> user_agent]
        slept == random_delay(PAGE_DELAY, PAGE_VARIANCE, u)
        by_llm(method) ==
            IF extract_with_llm(c.llm) # NoText
            THEN [description |-> extract_with_llm(c.llm), method |-> method]
            ELSE NoDescription
    IN  IF ~c.parses THEN Raised
        ELSE IF is_product_listing_page(c.page)
        THEN (IF c.use_llm THEN by_llm("llm_listing_page") ELSE NoDescription)
        ELSE IF c.domain \in SiteDomains /\ LongEnough(c.site)
        THEN [description |-> c.site, method |-> SiteMethod(c.domain)]
        ELSE IF LongEnough(c.generic)
        THEN [description |-> c.generic, method |-> "generic_fallback"]
        ELSE IF c.use_llm THEN by_llm("llm_fallback")
        ELSE NoDescription

\* Normalized as it would be if a product that has a description kept it.
NormalizedKeepsCurrent(r, current) ==
    [ method |-> r.method,
      text |-> IF LongEnough(current) THEN current
               ELSE IF r.description # NoText THEN clean_description(r.description)
               ELSE NoText ]

\* The loop body's handling of the value returned, for a product whose
\* description is current: the strategy name, and the cleaned text when
\* there is a text.
Normalized(r, current) ==
    [ method |-> r.method,
      text |-> IF r.description # NoText THEN clean_description(r.description)
               ELSE NoText ]

InitTwice ==
    /\ pc = "pipeline"
    /\ content \in Contents
    /\ results = << >>
    /\ page_in = NoPage
    /\ listing_out = FALSE
    /\ text_in = NoText
    /\ text_out = NoText
    /\ opts \in { o \in AllOptions : /\ ProcessingRun(o) /\ ~o.rollback_on_error
                                     /\ ~o.use_llm /\ ~o.download_images }
    /\ description = Catalog(0)
    /\ image_file = [p \in Products |-> NoImage]
    /\ durable = [p \in Products |-> [description |-> description[p], image_file |-> NoImage]]
    /\ catalog0 = durable
    /\ media = {}
    /\ retry_data = << >>
    /\ llm_client = FALSE
    /\ products_list = << >>
    /\ idx = 0
    /\ stats = ZeroStats
    /\ updated_products = << >>
    /\ commit_counter = 0
    /\ commits = 0
    /\ failed_products = << >>
    /\ ledger_file = NoFile
    /\ item = FreshItem
    /\ delays = << >>
    /\ attempt = 0
    /\ llm_calls = 0

\* One pass of the pipeline on the content, with the user agent and the
\* delay drawn for it and the description the product has at that time.
RunPipeline ==
    /\ pc = "pipeline"
    /\ Len(results) < Passes
    /\ \E user_agent \in UserAgents, u \in Jitter(PAGE_VARIANCE),
          current \in { InitialDescriptionSeq[k] : k \in 1..Len(InitialDescriptionSeq) } :
        results' = Append(results,
            [ result |-> Normalized(scrape_description(content, user_agent, u), current),
              user_agent |-> user_agent, u |-> u, current |-> current ])
    /\ UNCHANGED << pc, content, opts, catalog0, description, image_file, durable, media,
                    retry_data, llm_client, products_list, idx, stats, updated_products,
                    commit_counter, commits, failed_products, ledger_file, item,
                    delays, attempt, llm_calls, text_in, text_out, page_in,
                    listing_out >>

NextTwice == RunPipeline

SpecTwice == InitTwice /\ [][NextTwice]_vars

----------------------------------------------------------------------------
(* Properties *)

RunEnded == pc \in { "summary", "done" }

PreRunDescription(p) == catalog0[p].description

\* C1: in all-or-nothing mode, when a WorkItem raised an error, after the run
\* no catalog write of the run is observable: the stored description and
\* image reference of every product are the pre-run ones.
C1_RollbackRestoresCatalog ==
    (opts.rollback_on_error /\ RunEnded /\ failed_products # << >>)
        => (durable = catalog0 /\ Stored = catalog0)

\* C1 witness: an all-or-nothing run that ended on an error after an earlier
\* WorkItem's description had been written.
C1_Witness ==
    /\ opts.rollback_on_error
    /\ pc = "done"
    /\ failed_products # << >>
    /\ stats.updated >= 1

\* C2: in per-item mode an error on a WorkItem does not stop the run: the
\* loop ends only when every WorkItem was processed, an accepted extraction
\* is persisted, and a persisted description changes only by the write of
\* the WorkItem in hand.
C2_PerItemIsolation ==
    /\ []((~opts.rollback_on_error /\ pc = "summary")
            => (idx = Len(products_list) /\ stats.processed = Len(products_list)))
    /\ []((~opts.rollback_on_error /\ item.outcome = "persisted")
            => durable[item.product].description = clean_description(item.result))
    /\ [][ ~opts.rollback_on_error =>
             /\ (pc = "except" => pc' = "loop" /\ durable' = durable)
             /\ \A p \in Products :
                  durable'[p].description # durable[p].description
                      => (pc = "validating" /\ p = item.product) ]_vars

\* C2 witness: the first WorkItem failed and the second one was persisted.
C2_Witness ==
    /\ ~opts.rollback_on_error
    /\ Len(products_list) >= 2
    /\ failed_products # << >>
    /\ failed_products[1].product_id = products_list[1]
    /\ item.product = products_list[2]
    /\ item.outcome = "persisted"
    /\ durable[item.product].description # PreRunDescription(item.product)

\* C3: with --retry-from-json the work list is exactly the WorkItems of the
\* ledger file, each processed with the record's retry count plus one.
C3_RetryWorkList ==
    (pc # "handle" /\ pc # "done" /\ opts.retry_from_json.kind = "ledger")
        => /\ Len(products_list) = Len(retry_data)
           /\ \A i \in 1..Len(retry_data) :
                products_list[i] = retry_data[i].product_id
           /\ (item.product # 0 => item.retry_info)

\* C4: a description written by the run is the output of clean_description
\* and has between 50 and 2000 characters.
C4_WrittenDescriptionBounds ==
    [][ \A p \in Products :
          (description'[p] # description[p] /\ pc # "abort")
              => /\ description'[p] = clean_description(item.result)
                 /\ TextLen(description'[p]) >= MIN_DESCRIPTION_LENGTH
                 /\ TextLen(description'[p]) <= MAX_DESCRIPTION_LENGTH ]_vars

\* C4 witness: a truncated description was written.
C4_Witness ==
    /\ item.outcome = "persisted"
    /\ TextLen(item.result) > MAX_DESCRIPTION_LENGTH
    /\ description[item.product] = clean_description(item.result)

\* C5: for a page classified as a listing no site-specific or generic
\* strategy is invoked, only the LLM fallback may run (and only when it is
\* enabled), and with no LLM text the WorkItem is skipped and the product's
\* description is unchanged.
C5_ListingOnlyLlm ==
    item.is_listing =>
        /\ item.invoked \in { << >>, << "llm" >> }
        /\ (item.invoked = << "llm" >> => opts.use_llm)
        /\ (item.result = NoText /\ pc \in { "loop", "summary", "done" })
              => /\ item.outcome = "skipped"
                 /\ description[item.product] = PreRunDescription(item.product)

\* C5 witness: a listing page went to the LLM, which gave nothing, and the
\* WorkItem was skipped.
C5_Witness ==
    /\ item.is_listing
    /\ item.invoked = << "llm" >>
    /\ item.result = NoText
    /\ item.outcome = "skipped"

Unacceptable(it) ==
    it.result = NoText \/ TextLen(clean_description(it.result)) < MIN_DESCRIPTION_LENGTH

\* C6: a WorkItem with no text, with a cleaned text under 50 characters, or
\* whose LLM answer was the sentinel, ends as skipped: skipped grows by one,
\* errors and the ledger do not change, the description is left alone.
C6_SkippedNotFailed ==
    /\ [](item.llm = "not_found" => item.result = NoText)
    /\ [][ (pc = "validating" /\ Unacceptable(item))
             => /\ item'.outcome = "skipped"
                /\ stats'.skipped = stats.skipped + 1
                /\ stats'.errors = stats.errors
                /\ failed_products' = failed_products
                /\ description' = description
                /\ durable' = durable ]_vars

\* C6 witness: the LLM answered with the sentinel and the WorkItem was skipped.
C6_Witness ==
    /\ item.llm = "not_found"
    /\ item.outcome = "skipped"
    /\ stats.skipped >= 1
    /\ failed_products = << >>

\* C6 witness for the too-short case: a strategy's text was long enough raw
\* and too short once cleaned.
C6_WitnessTooShort ==
    /\ item.result # NoText
    /\ item.outcome = "skipped"

ErrorKinds == { "request", "parsing", "persistence" }

\* C7 as stated: only a failed fetch or a failed catalog write puts a
\* FailureRecord in the ledger.
C7_OnlyNetworkOrPersistence ==
    \A i \in 1..Len(failed_products) :
        failed_products[i].error \in { "request", "persistence" }

\* C7 amended: a FailureRecord is appended, and the error total grows, only
\* for a WorkItem whose processing raised an exception: a failed fetch, an
\* exception while parsing or extracting, or a failed catalog write.
C7_LedgerOnlyOnException ==
    /\ [](\A i \in 1..Len(failed_products) : failed_products[i].error \in ErrorKinds)
    /\ [][ (failed_products' # failed_products \/ stats'.errors # stats.errors)
             => /\ item.error_type \in ErrorKinds
                /\ item.outcome \in { "pending", "failed" }
                /\ item'.outcome = "failed"
                /\ stats'.errors = stats.errors + 1
                /\ \/ failed_products' = failed_products
                   \/ failed_products' = Append(failed_products, FailureRecord(item)) ]_vars

\* C7 witness: a parsing exception put a record in the ledger.
C7_Witness ==
    /\ failed_products # << >>
    /\ failed_products[Len(failed_products)].error = "parsing"
    /\ stats.errors >= 1

\* C8: an error raised during the LLM call is swallowed: the WorkItem ends
\* as skipped, no FailureRecord is appended, the error counter is unchanged
\* and an all-or-nothing run is not aborted.
C8_LlmErrorSwallowed ==
    /\ [](item.llm = "error"
            => /\ item.result = NoText
               /\ item.error_type = "none"
               /\ pc \notin { "except", "abort" }
               /\ item.outcome \in { "pending", "skipped" }
               /\ (pc = "loop" => item.outcome = "skipped"))
    /\ [][ pc = "llm" => (stats' = stats /\ failed_products' = failed_products) ]_vars

\* C8 witness: in an all-or-nothing run the LLM call raised and the WorkItem
\* was skipped, with no error recorded.
C8_Witness ==
    /\ opts.rollback_on_error
    /\ item.llm = "error"
    /\ item.outcome = "skipped"
    /\ stats.errors = 0
    /\ failed_products = << >>

LlmCalls(it) == Cardinality({ i \in 1..Len(it.invoked) : it.invoked[i] = "llm" })

SiteMethodNames ==
    { "iris_ma_specific", "primini_ma_specific", "biougnach_ma_specific", "jumia_specific" }

EarlierMethods == SiteMethodNames \cup { "generic_fallback" }

\* The strategies of the chain before the LLM, for a URL.
ChainBeforeLlm(url) ==
    IF url \in SiteDomains THEN << "site_specific", "generic_fallback" >>
    ELSE << "generic_fallback" >>

\* C9: the LLM fallback is invoked only for a listing page or after the
\* site-specific strategy (if the domain has one) and the generic fallback
\* both failed, never when LLM use is off, never after an earlier strategy
\* succeeded, and at most once per WorkItem.
C9_LlmOnlyAsLastResort ==
    /\ LlmCalls(item) <= 1
    /\ LlmCalls(item) = 1 =>
         /\ opts.use_llm
         /\ item.method \notin EarlierMethods
         /\ item.invoked = IF item.is_listing THEN << "llm" >>
                           ELSE ChainBeforeLlm(item.url) \o << "llm" >>

\* C9 witness: both earlier strategies failed and the LLM produced the text.
C9_Witness ==
    /\ item.invoked = << "site_specific", "generic_fallback", "llm" >>
    /\ item.method = "llm_fallback"
    /\ item.outcome = "persisted"

IsPrefix(a, b) == Len(a) <= Len(b) /\ a = SubSeq(b, 1, Len(a))

\* The strategy a method name belongs to.
StrategyOf(m) ==
    IF m \in SiteMethodNames THEN "site_specific"
    ELSE IF m = "generic_fallback" THEN "generic_fallback"
    ELSE IF IsLlmMethod(m) THEN "llm"
    ELSE "none"

\* C10: for a page that is not a listing the strategies are tried in the
\* order site-specific, generic, LLM; the first one whose text has at least
\* 50 characters wins and nothing is invoked after it; a written description
\* carries one non-empty strategy name, that of the strategy that produced
\* the text.
C10_FixedOrderFirstWins ==
    /\ ~item.is_listing => IsPrefix(item.invoked, ChainBeforeLlm(item.url) \o << "llm" >>)
    /\ item.result # NoText =>
         /\ item.invoked # << >>
         /\ StrategyOf(item.method) = item.invoked[Len(item.invoked)]
         /\ LongEnough(item.result)
    /\ item.result = NoText => item.method = "none"
    /\ item.outcome = "persisted" => StrategyOf(item.method) # "none"

\* C10 witness: the site-specific rule failed, the generic fallback won and
\* its text was written under its name.
C10_Witness ==
    /\ item.invoked = << "site_specific", "generic_fallback" >>
    /\ item.method = "generic_fallback"
    /\ item.outcome = "persisted"

\* C11: each product is taken as a WorkItem at most once, and the page of a
\* WorkItem is requested (session.get of its URL) at most once, image
\* download included.
C11_PageRequestedOnce ==
    /\ \A i, j \in 1..idx : products_list[i] = products_list[j] => i = j
    /\ item.page_gets <= 1

\* The stage of the WorkItem in hand at each position of the loop body; the
\* image step lies between extracting and validating.
StageRank(p) ==
    CASE p \in { "fetching", "get" } -> 1
      [] p = "classifying" -> 2
      [] p \in { "site", "generic", "llm" } -> 3
      [] p \in { "image", "image_get", "image_try", "image_download" } -> 4
      [] p = "validating" -> 5
      [] p = "except" -> 6
      [] OTHER -> 0

InProgress(p) == StageRank(p) > 0

TerminalOutcomes == { "persisted", "skipped", "failed" }

\* C12: a WorkItem starts pending, goes through fetching, classifying,
\* extracting and validating in that order without going back, and ends in
\* one terminal state that does not change afterwards; it is persisted only
\* from validating, with an accepted text; when a per-item run reaches the
\* summary every WorkItem of the work list has a terminal state.
C12_StagesInOrder ==
    /\ [](InProgress(pc) => item.outcome = "pending")
    /\ []((pc \in { "loop", "abort", "summary" } /\ idx > 0)
            => item.outcome \in TerminalOutcomes)
    /\ []((~opts.rollback_on_error /\ pc = "summary")
            => /\ idx = Len(products_list)
               /\ stats.updated + stats.skipped + stats.errors = Len(products_list))
    /\ [][ /\ (InProgress(pc) /\ InProgress(pc')) => StageRank(pc') >= StageRank(pc)
           /\ (pc = "loop" /\ InProgress(pc')) => (pc' = "fetching" /\ idx' = idx + 1)
           /\ (item.outcome \in TerminalOutcomes /\ idx' = idx)
                 => item'.outcome = item.outcome
           /\ (item'.outcome = "persisted" /\ item.outcome # "persisted")
                 => /\ pc = "validating"
                    /\ TextLen(clean_description(item.result)) >= MIN_DESCRIPTION_LENGTH ]_vars

\* C12 witness: a per-item run ended after one WorkItem failed and another
\* went through the site rule, the generic fallback, the LLM and the image
\* step and was persisted.
C12_Witness ==
    /\ ~opts.rollback_on_error
    /\ pc = "done"
    /\ failed_products # << >>
    /\ item.outcome = "persisted"
    /\ item.invoked = << "site_specific", "generic_fallback", "llm" >>
    /\ item.image = "downloaded"

\* What a step that sends the page request does under a retry policy
\* allowing max_attempts sends of one request: the send is within the
\* allowance; an answer of the force list is followed by another send while
\* the allowance lasts, and fails the WorkItem when it is used up; any other
\* error status fails the WorkItem at once.
RetryPolicy(max_attempts) ==
    pc = "get" =>
        LET sent == attempt + 1
            status == item'.status
        IN  /\ sent <= max_attempts
            /\ (status \in STATUS_FORCELIST /\ sent < max_attempts)
                  => (pc' = "get" /\ attempt' = sent)
            /\ (status \in STATUS_FORCELIST /\ sent = max_attempts)
                  => (pc' = "except" /\ item'.error_type = "request")
            /\ (status >= 400 /\ status \notin STATUS_FORCELIST)
                  => (pc' = "except" /\ item'.error_type = "request")

\* C13 as stated: a page GET answered 429, 500, 502, 503 or 504 is retried,
\* with at most 3 attempts in total, after which the WorkItem fails; any
\* other 4xx/5xx fails the WorkItem with no retry.
C13_ThreeAttempts == [][RetryPolicy(3)]_vars

\* C13 amended: the same with at most 3 retries, 4 attempts in total.
C13_ThreeRetries == [][RetryPolicy(1 + RETRY_TOTAL)]_vars

\* C13 witness: the page request was sent and answered with a status of the
\* force list three times over, and its third retry is about to be sent.
C13_Witness ==
    /\ pc = "get"
    /\ attempt = RETRY_TOTAL
    /\ item.status \in STATUS_FORCELIST

\* The delay between requests (--delay with its variance) is among the
\* sleeps made since the last request was sent.
ItemDelayMade ==
    \E i \in 1..Len(delays) :
        delays[i].base = opts.delay /\ delays[i].variance = ITEM_VARIANCE

\* C14: when a WorkItem that requested its page is followed by another
\* WorkItem with a page to request, the delay between requests has been made
\* before the next WorkItem starts, whatever the outcome of the earlier one.
C14_DelayBetweenItems ==
    [][ (pc = "loop" /\ pc' = "fetching" /\ item.page_gets > 0) => ItemDelayMade ]_vars

\* The positions from which the next step sends an HTTP request, and the
\* base delay of the _random_delay call placed before each.
RequestPositions == { "get", "image_get", "image_download" }

DelayBefore(p) ==
    CASE p = "get" -> PAGE_DELAY
      [] p = "image_get" -> IMAGE_PAGE_DELAY
      [] p = "image_download" -> IMAGE_DELAY

\* The last thing done before the request is a random delay of the call
\* site, of at least the minimum.
PrecededByDelay ==
    /\ delays # << >>
    /\ delays[Len(delays)].base = DelayBefore(pc)
    /\ delays[Len(delays)].slept >= MIN_SLEEP

AllDelaysFloored == \A i \in 1..Len(delays) : delays[i].slept >= MIN_SLEEP

\* C15 as stated: every HTTP request sent (page fetch, page fetch of the
\* image step, image download) is immediately preceded by a random delay,
\* and no random delay is shorter than 0.5 s.
C15_EveryRequestDelayed ==
    /\ []AllDelaysFloored
    /\ [][ (pc \in RequestPositions) => PrecededByDelay ]_vars

\* C15 amended: every session.get call is immediately preceded by a random
\* delay and no random delay is shorter than 0.5 s; a retry of the page
\* request by the adapter is sent with no random delay before it.
C15_EveryCallDelayed ==
    /\ []AllDelaysFloored
    /\ [][ /\ (pc \in RequestPositions /\ attempt = 0) => PrecededByDelay
           /\ (pc = "get" /\ attempt > 0) => delays = << >> ]_vars

\* C15 witness: an image is about to be requested, not the first of its
\* page, after a random delay that was raised to the minimum.
C15_Witness ==
    /\ pc = "image_download"
    /\ item.image_urls = 1
    /\ delays = << random_delay(IMAGE_DELAY, IMAGE_VARIANCE, IMAGE_VARIANCE) >>
    /\ (IMAGE_DELAY * (1000 + IMAGE_VARIANCE)) \div 1000 < MIN_SLEEP
    /\ delays[1].slept = MIN_SLEEP

\* The stored description of some product changes in a step.
DescriptionCommitted ==
    \E p \in Products : durable'[p].description # durable[p].description

\* C16: in per-item mode with a commit interval N > 0 a written description
\* becomes durable only by the batch commit made when N accepted writes
\* have accumulated, after which the counter is 0 again; in all-or-nothing
\* mode no batch commit is made and nothing is committed before the loop
\* has ended.
C16_BatchedCommits ==
    /\ [](opts.rollback_on_error => commits = 0)
    /\ [][ /\ (~opts.rollback_on_error /\ opts.commit_interval > 0 /\ DescriptionCommitted)
                => commits' = commits + 1
           /\ commits' # commits
                => /\ commits' = commits + 1
                   /\ commit_counter + 1 = opts.commit_interval
                   /\ commit_counter' = 0
           /\ (opts.rollback_on_error /\ durable' # durable)
                => (pc = "loop" /\ pc' = "summary") ]_vars

\* C17: at the end of a run the LLM counter of the statistics equals the
\* number of LLM calls the run made, whatever the calls returned.
C17_LlmCounterCountsCalls == RunEnded => stats.llm_used = llm_calls

\* The place of a product in the work list.
PositionOf(p) == CHOOSE k \in 1..Len(products_list) : products_list[k] = p

\* C18: the Failure Ledger only grows, by one record appended for each
\* WorkItem that raised an error; its records are never changed or removed
\* and are in processing order; the file written at the end of a run with at
\* least one record holds exactly the records of the run.
C18_LedgerAppendOnly ==
    /\ [](\A i, j \in 1..Len(failed_products) :
             i < j => PositionOf(failed_products[i].product_id)
                        < PositionOf(failed_products[j].product_id))
    /\ [](ledger_file # NoFile => (pc = "done" /\ ledger_file = failed_products))
    /\ []((pc = "done" /\ failed_products # << >>) => ledger_file = failed_products)
    /\ [][ /\ IsPrefix(failed_products, failed_products')
           /\ Len(failed_products') = Len(failed_products) + (IF pc = "except" THEN 1 ELSE 0)
           /\ pc = "except" =>
                 /\ failed_products'[Len(failed_products')].product_id = item.product
                 /\ failed_products'[Len(failed_products')].url = item.url ]_vars

\* C18 witness: a run ended with two WorkItems failed, and the file holds
\* both records.
C18_Witness ==
    /\ pc = "done"
    /\ Len(failed_products) = 2
    /\ ledger_file = failed_products
    /\ failed_products[1].product_id # failed_products[2].product_id

\* C19: the text clean_description returns holds no two whitespace
\* characters in a row, and clean_description returns its own output
\* unchanged.
C19_SingleSpacesIdempotent ==
    /\ pc \in { "cleaned", "recleaned" } => MaxWhitespaceRun(text_out) <= 1
    /\ pc = "recleaned" => text_out = text_in

\* The text after the whitespace, bullet and dash substitutions, and the same
\* after the line filter, which strips it.
Substituted(t) == SubDashes(SubBullets(CollapseWhitespace(t)))
LineFiltered(t) == DropShortLines(Substituted(t))

Cleaned == pc \in { "cleaned", "recleaned" } /\ text_in # NoText

\* C20 as stated: when the text after the whitespace, bullet and dash
\* substitutions has more than 2000 characters, the result is its first 1997
\* characters followed by '...', 2000 characters in all; otherwise the result
\* is not truncated and bears no marker added by the function.
C20_TruncatesSubstituted ==
    Cleaned =>
        IF TextLen(Substituted(text_in)) > MAX_DESCRIPTION_LENGTH
        THEN /\ text_out = Concat(Take(Substituted(text_in), TRUNCATE_AT), Ellipsis)
             /\ TextLen(text_out) = MAX_DESCRIPTION_LENGTH
        ELSE text_out = Strip(LineFiltered(text_in))

\* C20 amended: the same, where the text measured and cut is the one after
\* the line filter too, that is the substituted text stripped of the
\* whitespace at its ends.
C20_TruncatesLineFiltered ==
    Cleaned =>
        IF TextLen(LineFiltered(text_in)) > MAX_DESCRIPTION_LENGTH
        THEN /\ text_out = Concat(Take(LineFiltered(text_in), TRUNCATE_AT), Ellipsis)
             /\ TextLen(text_out) = MAX_DESCRIPTION_LENGTH
             /\ text_out[Len(text_out)] = Run("p", 3)
        ELSE /\ text_out = LineFiltered(text_in)
             /\ TextLen(text_out) <= MAX_DESCRIPTION_LENGTH

\* C20 witness: a text that begins with whitespace and is longer than 2000
\* characters once stripped was cut to 2000 characters.
C20_Witness ==
    /\ pc = "cleaned"
    /\ text_in # NoText
    /\ text_in[1].c = "s"
    /\ TextLen(LineFiltered(text_in)) > MAX_DESCRIPTION_LENGTH
    /\ TextLen(text_out) = MAX_DESCRIPTION_LENGTH

\* C21: the classifier returns true for every page with more than 5
\* distinct elements whose class says product, item or card, and false for
\* every page with at most 5 such elements and no search vocabulary in a
\* div's class or in the h1.
C21_MoreThanFiveDistinct ==
    pc = "classified" =>
        /\ DistinctElements(page_in) > LISTING_THRESHOLD => listing_out
        /\ (/\ DistinctElements(page_in) <= LISTING_THRESHOLD
            /\ ~page_in.search_div
            /\ ~page_in.h1_results) => ~listing_out

\* The cap on the size of an image, in bytes.
CapBytes == opts.max_image_size * BYTES_PER_MB

\* The answer to the image request is an image, with no declared length
\* over the cap and no more bytes than the cap.
WithinRules(c) ==
    /\ c.fetch_ok
    /\ c.is_image
    /\ (c.content_length = 0 \/ c.content_length <= CapBytes)
    /\ c.size <= CapBytes

\* C22: an image file is stored and the product's image reference set only
\* by the download of a candidate whose answer is an image within the cap,
\* declared and actual; a candidate that is not is passed over, the next
\* one is tried, and after the last one the image outcome is a failure.
C22_OnlyAcceptableImagesPersisted ==
    [][ /\ media' # media => pc = "image_download"
        /\ image_file' # image_file => pc \in { "image_download", "abort" }
        /\ pc = "image_download" =>
             LET c == item.candidate
                 p == item.product
             IN  IF WithinRules(c)
                 THEN /\ media' = media \cup { p }
                      /\ image_file' = [image_file EXCEPT ![p] = ImageOf(p)]
                      /\ item'.image = "downloaded"
                 ELSE /\ media' = media /\ image_file' = image_file
                      /\ IF item.image_urls > 1
                         THEN pc' = "image_try" /\ item'.image_urls = item.image_urls - 1
                         ELSE pc' = "validating" /\ item'.image = "failed" ]_vars

\* C22 witness: a candidate within the rules was stored, the product's image
\* reference set and the download counted.
C22_Witness ==
    /\ pc = "validating"
    /\ item.image = "downloaded"
    /\ item.product \in media
    /\ image_file[item.product] = ImageOf(item.product)
    /\ stats.images_downloaded = 1

\* The positions of the image step of one WorkItem.
ImagePositions == { "image", "image_get", "image_try", "image_download" }

LacksDescription(d) == d = NoText \/ TextLen(d) < MIN_DESCRIPTION_LENGTH

\* The products a run may take, from the catalog as it is at run start.
Eligible ==
    { p \in Products : ~opts.skip_existing \/ LacksDescription(catalog0[p].description) }

\* C25: the work list is derived from the catalog at run start.  When handle
\* builds it, it holds products of the catalog in catalog order, each once;
\* with skip-existing only products whose description is missing, empty or
\* shorter than 50 characters, otherwise every product; with a limit L > 0
\* the first L of these at most; and it is not changed afterwards.  In a
\* skip-existing run a product that has a description of at least 50
\* characters is never the WorkItem in hand and keeps its description.
C25_WorkListFromCatalog ==
    /\ [][ (pc = "handle" /\ pc' = "loop") =>
            LET l == products_list'
            IN  /\ \A i \in 1..Len(l) : l[i] \in Eligible
                /\ \A i, j \in 1..Len(l) : i < j => l[i] < l[j]
                /\ opts.limit = 0 => { l[i] : i \in 1..Len(l) } = Eligible
                /\ opts.limit > 0 =>
                    /\ Len(l) <= opts.limit
                    /\ Len(l) = Min(opts.limit, Cardinality(Eligible))
                    /\ \A p \in Eligible :
                        (\A i \in 1..Len(l) : l[i] # p) => \A i \in 1..Len(l) : l[i] < p ]_vars
    /\ [][ (pc # "handle") => products_list' = products_list ]_vars
    /\ [](\A p \in Products :
            (opts.skip_existing /\ ~LacksDescription(catalog0[p].description)) =>
                /\ item.product # p
                /\ description[p] = catalog0[p].description
                /\ durable[p] = catalog0[p])

\* A skip-existing run that ended on a catalog where the first product has a
\* description of 80 characters and the second has none: the work list is the
\* second product alone, its description was written and the first product's
\* is as it was.
C25_Witness ==
    /\ pc = "done"
    /\ opts.skip_existing
    /\ ~LacksDescription(catalog0[1].description)
    /\ products_list = << 2 >>
    /\ stats.processed = 1
    /\ stats.updated = 1
    /\ description[2] # catalog0[2].description
    /\ description[1] = catalog0[1].description

\* updated + skipped + errors
Accounted == stats.updated + stats.skipped + stats.errors

\* C26: in per-item mode the counters stay consistent.  Between WorkItems
\* and at run end processed = updated + skipped + errors and processed is
\* the number of WorkItems taken; while a WorkItem is in hand it is counted
\* in processed and in none of the three; a step adds at most 1 to processed
\* (only the loop head does) and at most 1 to the three together, and never
\* takes away; at run end processed is the length of the work list.
C26_StatsConsistent ==
    /\ [](~opts.rollback_on_error =>
            /\ pc \in { "loop", "summary", "done" } =>
                 stats.processed = Accounted /\ stats.processed = idx
            /\ InProgress(pc) => stats.processed = Accounted + 1
            /\ RunEnded => stats.processed = Len(products_list))
    /\ [][ ~opts.rollback_on_error =>
            /\ stats'.processed \in { stats.processed, stats.processed + 1 }
            /\ stats'.processed = stats.processed + 1 <=> (pc = "loop" /\ idx' = idx + 1)
            /\ stats'.updated >= stats.updated
            /\ stats'.skipped >= stats.skipped
            /\ stats'.errors >= stats.errors
            /\ (stats'.updated + stats'.skipped + stats'.errors) - Accounted \in { 0, 1 } ]_vars

\* A per-item run of two or more WorkItems that ended with at least one of
\* them failed and at least one written or skipped.
C26_Witness ==
    /\ pc = "done"
    /\ ~opts.rollback_on_error
    /\ stats.processed = Len(products_list)
    /\ stats.processed >= 2
    /\ stats.errors >= 1
    /\ stats.updated + stats.skipped >= 1

\* The products whose stored description is not the one of run start.
PersistedWrites == { p \in Products : durable[p].description # catalog0[p].description }

\* C27: at the end of every run, in both transaction modes, the error total
\* of the summary is the number of FailureRecords, and in rollback mode
\* after an abort the updated count is the number of catalog writes that
\* are persisted, which is zero.
C27_SummaryMatchesLedger ==
    RunEnded =>
        /\ stats.errors = Len(failed_products)
        /\ (opts.rollback_on_error /\ failed_products # << >>) =>
               /\ PersistedWrites = {}
               /\ stats.updated = Cardinality(PersistedWrites)

\* len(description.strip()) >= 50 on the text as the strategy returned it.
RawLongEnough(t) == TextLen(Strip(t)) >= MIN_DESCRIPTION_LENGTH

\* len(cleaned_description) >= 50
CleansLongEnough(t) == TextLen(clean_description(t)) >= MIN_DESCRIPTION_LENGTH

\* C28: the chain selects its winner on the raw length and the loop body
\* accepts on the cleaned length.  A text becomes the result of the chain as
\* soon as it has 50 characters before cleaning, which ends the chain; from
\* then on no strategy is invoked for the WorkItem and its result stays; and
\* when the result cleans to fewer than 50 characters the validation counts
\* the WorkItem as skipped, writes nothing and goes to the next WorkItem.
C28_WinnerOnRawLength ==
    /\ [][ (pc \in { "site", "generic", "llm" } /\ item'.result # item.result) =>
            /\ RawLongEnough(item'.result)
            /\ StrategyOf(item'.method) = item'.invoked[Len(item'.invoked)]
            /\ pc' = AfterScrape ]_vars
    /\ [][ (item.result # NoText /\ InProgress(pc)) =>
            /\ item'.invoked = item.invoked \/ item'.product # item.product
            /\ pc' \notin { "fetching", "get", "classifying", "site", "generic", "llm" }
            /\ pc' # "loop" => item'.result = item.result /\ item'.method = item.method ]_vars
    /\ [][ (pc = "validating" /\ item.result # NoText /\ ~CleansLongEnough(item.result)) =>
            /\ pc' = "loop"
            /\ item'.outcome = "skipped"
            /\ item'.invoked = item.invoked
            /\ stats'.skipped = stats.skipped + 1
            /\ stats'.updated = stats.updated
            /\ description' = description ]_vars

\* A WorkItem of a run with the LLM fallback enabled was skipped on the text
\* of its site rule, 65 characters that clean to 25: the site rule is the
\* only strategy that was invoked for it.
C28_Witness ==
    /\ pc = "loop"
    /\ opts.use_llm /\ llm_client
    /\ item.outcome = "skipped"
    /\ item.result = << Run("x", 25), Run("d", 40) >>
    /\ RawLongEnough(item.result)
    /\ ~CleansLongEnough(item.result)
    /\ item.method = "iris_ma_specific"
    /\ item.invoked = << "site_specific" >>
    /\ description[item.product] = catalog0[item.product].description

\* A rollback run in which a WorkItem has failed.
Aborted == opts.rollback_on_error /\ failed_products # << >>

\* Once a WorkItem of a rollback run has failed: the run is in handle's
\* except clause, at the summary or ended; there is one FailureRecord, for
\* the WorkItem in hand, which is the last one taken; processed is its
\* position in the work list, at least short places before its end; no step takes another
\* WorkItem, requests a page, calls the model or writes to the store; the
\* command goes through the summary to its end; and the file written holds
\* that one record.
AbortedAt(short) ==
    Aborted =>
        /\ pc \in { "abort", "summary", "done" }
        /\ Len(failed_products) = 1
        /\ failed_products[1].product_id = item.product
        /\ item.product = products_list[idx]
        /\ item.outcome = "failed"
        /\ stats.processed = idx
        /\ stats.processed <= Len(products_list) - short
        /\ pc = "done" => ledger_file = failed_products

AbortedStep ==
    Aborted =>
        /\ idx' = idx
        /\ item' = item
        /\ llm_calls' = llm_calls
        /\ media' = media
        /\ durable' = durable
        /\ failed_products' = failed_products
        /\ pc = "abort" => pc' = "summary"
        /\ pc = "summary" => pc' = "done"

\* C29 as stated: in rollback mode, once one WorkItem fails, no later
\* WorkItem is fetched, extracted or written, processed stays below the
\* length of the work list, the command ends normally and the ledger file
\* holds exactly one record, that of the failing WorkItem.
C29_ProcessedBelowLength == [](AbortedAt(1)) /\ [][AbortedStep]_vars

\* C29 amended: the same, with processed staying at the position of the
\* failing WorkItem, which is the length of the work list when the failing
\* WorkItem is the last one.
C29_ProcessedAtFailure == [](AbortedAt(0)) /\ [][AbortedStep]_vars

\* A rollback run ended after its last WorkItem failed: processed is the
\* length of the work list and the file holds the one record.
C29_Witness ==
    /\ pc = "done"
    /\ Aborted
    /\ Len(products_list) = NumProducts
    /\ stats.processed = Len(products_list)
    /\ item.product = products_list[Len(products_list)]
    /\ ledger_file = << FailureRecord(item) >>

\* The products whose stored row refers to an image file.
Referenced == { p \in Products : durable[p].image_file # NoImage }

\* C30: an aborted rollback run with image download leaves nothing outside
\* the ledger and the log.  After the abort the catalog rows are those of run
\* start, no image file written during the run is in the media store, and
\* the files of the media store are those the catalog rows refer to.
C30_NoFilesAfterAbort ==
    (Aborted /\ RunEnded) =>
        /\ durable = catalog0
        /\ media = {}
        /\ media = Referenced

====
